---- MODULE Spec2Model ----
(***************************************************************************)
(* Model of the transform core of CG-UFPel-Rust: the animation player      *)
(* (src/model_pos/animation.rs), the curve controller                      *)
(* (src/model_pos/curve.rs) and ModelPosition (src/model_pos/mod.rs).      *)
(*                                                                         *)
(* Numbers.  The program computes in f32.  The model computes in fixed     *)
(* point: time in milliseconds, lengths and scale in thousandths, angles   *)
(* in thousandths of a degree.  A rate of r per second applied for dt ms   *)
(* is then exactly r * dt.  Results that f32 rounding can perturb are      *)
(* therefore exact here.                                                   *)
(***************************************************************************)
EXTENDS Integers, Sequences, FiniteSets, TLC

VARIABLES
    ani,        \* an Animation value driven directly (as tests::steps does)
    script,     \* the script handed to Animation::start
    last_call,  \* the last call made on ani: operation, argument, state before, result
    played,     \* the step calls since the last start that took effect: <<delta_time, returned>>
                \* (SpecPlayback: the script last started and the translation at its start)
    model,      \* a ModelPosition
    frame,      \* the last process_input frame: state before, keys, delta_time
    frames,     \* number of process_input frames so far (SpecPlayback: of those with H down)
    last_move,  \* the last method called directly on model, and the one before it
    camera,     \* the scene's Camera
    last_scroll,\* the last process_mouse_scroll call: offset and zoom before
    models,     \* the scene's models (Scene::models)
    scene_frame \* the last Scene::process_input frame: models before, keys, delta_time, count

vars == <<ani, script, last_call, played, model, frame, frames,
          last_move, camera, last_scroll, models, scene_frame>>

(***************************************************************************)
(* Bounds                                                                  *)
(***************************************************************************)
MaxLen == 3       \* longest script
MaxSteps == 4     \* step calls followed after one start
MaxFrames == 3    \* process_input frames followed

\* the variables of the scene
sceneVars == <<camera, last_scroll, models, scene_frame>>

(***************************************************************************)
(* Command (mod.rs)                                                        *)
(***************************************************************************)
Command == {"ScaleU", "ScaleD",
            "SlideXF", "SlideXB", "SlideYF", "SlideYB", "SlideZF", "SlideZB",
            "CurveXF", "CurveXB", "CurveYF", "CurveYB", "CurveZF", "CurveZB",
            "RotateXF", "RotateXB", "RotateYF", "RotateYB", "RotateZF", "RotateZB"}

Movement == {"ForwardX", "BackwardX", "ForwardY", "BackwardY", "ForwardZ", "BackwardZ"}

(***************************************************************************)
(* Helpers on sequences of (command, duration) pairs                       *)
(***************************************************************************)
RECURSIVE SumDur(_)
SumDur(s) == IF s = <<>> THEN 0 ELSE s[1][2] + SumDur(Tail(s))

Min(a, b) == IF a <= b THEN a ELSE b

(***************************************************************************)
(* Animation (animation.rs)                                                *)
(***************************************************************************)
AnimationDefault == [is_running |-> FALSE, command_pool |-> <<>>]

start_unguarded(a, cmds) == [is_running |-> TRUE, command_pool |-> cmds]

start(a, cmds) ==
    IF a.is_running
    THEN a
    ELSE [is_running |-> TRUE, command_pool |-> cmds]

stop_keep_running(a) == [is_running |-> a.is_running, command_pool |-> <<>>]

stop(a) == [is_running |-> FALSE, command_pool |-> <<>>]

consume_keep_zero(pool) == SelectSeq(pool, LAMBDA e : e[2] >= 0)

consume_zero_only(pool) == SelectSeq(pool, LAMBDA e : e[2] # 0)

consume(pool) == SelectSeq(pool, LAMBDA e : e[2] > 0)

\* the for loop of step: i is the position reached, delta_time the budget left
RECURSIVE walk_keep_budget(_, _, _, _)
walk_keep_budget(pool, i, delta_time, vec) ==
    IF i > Len(pool)
    THEN [pool |-> pool, vec |-> vec]
    ELSE LET c == pool[i][1]
             t == pool[i][2]
         IN  IF delta_time <= t
             THEN [pool |-> [pool EXCEPT ![i] = <<c, t - delta_time>>],
                   vec  |-> Append(vec, <<c, delta_time>>)]
             ELSE walk_keep_budget([pool EXCEPT ![i] = <<c, 0>>], i + 1,
                                   delta_time, Append(vec, <<c, t>>))

RECURSIVE walk_strict(_, _, _, _)
walk_strict(pool, i, delta_time, vec) ==
    IF i > Len(pool)
    THEN [pool |-> pool, vec |-> vec]
    ELSE LET c == pool[i][1]
             t == pool[i][2]
         IN  IF delta_time < t
             THEN [pool |-> [pool EXCEPT ![i] = <<c, t - delta_time>>],
                   vec  |-> Append(vec, <<c, delta_time>>)]
             ELSE walk_strict([pool EXCEPT ![i] = <<c, 0>>], i + 1,
                              delta_time - t, Append(vec, <<c, t>>))

RECURSIVE walk_no_compare(_, _, _, _)
walk_no_compare(pool, i, delta_time, vec) ==
    IF i > Len(pool)
    THEN [pool |-> pool, vec |-> vec]
    ELSE LET c == pool[i][1]
             t == pool[i][2]
         IN  [pool |-> [pool EXCEPT ![i] = <<c, t - delta_time>>],
              vec  |-> Append(vec, <<c, delta_time>>)]

RECURSIVE walk(_, _, _, _)
walk(pool, i, delta_time, vec) ==
    IF i > Len(pool)
    THEN [pool |-> pool, vec |-> vec]
    ELSE LET c == pool[i][1]
             t == pool[i][2]
         IN  IF delta_time <= t
             THEN [pool |-> [pool EXCEPT ![i] = <<c, t - delta_time>>],
                   vec  |-> Append(vec, <<c, delta_time>>)]
             ELSE walk([pool EXCEPT ![i] = <<c, 0>>], i + 1,
                       delta_time - t, Append(vec, <<c, t>>))

\* step: the Animation after the call, the returned vec, and the pool as the
\* loop left it (before consume)
step(a, delta_time) ==
    IF Len(a.command_pool) < 1
    THEN [ani |-> stop(a), ret |-> <<>>, walked |-> <<>>]
    ELSE LET w == walk(a.command_pool, 1, delta_time, <<>>)
         IN  [ani    |-> [a EXCEPT !.command_pool = consume(w.pool)],
              ret    |-> w.vec,
              walked |-> w.pool]

(***************************************************************************)
(* Fixed-point vector and angle arithmetic (cgmath, f32 in the program)    *)
(***************************************************************************)
Unit == 1000      \* 1.0 in thousandths

vec3(x, y, z) == <<x, y, z>>

VAdd(u, v) == <<u[1] + v[1], u[2] + v[2], u[3] + v[3]>>

VSub(u, v) == <<u[1] - v[1], u[2] - v[2], u[3] - v[3]>>

VCross(u, v) == <<u[2] * v[3] - u[3] * v[2],
                  u[3] * v[1] - u[1] * v[3],
                  u[1] * v[2] - u[2] * v[1]>>

Abs(x) == IF x < 0 THEN -x ELSE x

\* sign-symmetric integer division (rounds toward zero, as a float cast would)
QuoT(a, b) == IF (a < 0) = (b < 0) THEN Abs(a) \div Abs(b) ELSE -(Abs(a) \div Abs(b))

\* angle in thousandths of a degree -> thousandths of a radian
MilliRad(a) == QuoT(a * 17453, 1000000)

\* sine and cosine, in thousandths, by their Taylor polynomials
SinMilli(a) == LET x == MilliRad(a) IN x - QuoT(x * x * x, 6000000)

CosMilli(a) == LET x2 == QuoT(MilliRad(a) * MilliRad(a), 1000)
               IN  Unit - QuoT(x2, 2) + QuoT(x2 * x2, 24000)

Axis(direction) == CASE direction \in {"ForwardX", "BackwardX"} -> "X"
                     [] direction \in {"ForwardY", "BackwardY"} -> "Y"
                     [] direction \in {"ForwardZ", "BackwardZ"} -> "Z"

Sign(direction) == IF direction \in {"ForwardX", "ForwardY", "ForwardZ"} THEN 1 ELSE -1

\* Quaternion::from_angle_{x,y,z}(Deg(angle)) applied to a vector
RotateVec(axis, angle, v) ==
    LET c == CosMilli(angle)
        s == SinMilli(angle)
    IN  CASE axis = "X" -> <<v[1],
                             QuoT(v[2] * c - v[3] * s, Unit),
                             QuoT(v[2] * s + v[3] * c, Unit)>>
          [] axis = "Y" -> <<QuoT(v[1] * c + v[3] * s, Unit),
                             v[2],
                             QuoT(v[3] * c - v[1] * s, Unit)>>
          [] axis = "Z" -> <<QuoT(v[1] * c - v[2] * s, Unit),
                             QuoT(v[1] * s + v[2] * c, Unit),
                             v[3]>>

(***************************************************************************)
(* Orientation.  A quaternion is kept as the product that built it: the    *)
(* sequence of its factors, each an axis rotation <<axis, angle>> or a     *)
(* look rotation <<"look", dir, up>>; adjacent rotations about one axis    *)
(* are merged and a zero rotation is the identity.  NaNQuat is the         *)
(* quaternion whose components are NaN.                                    *)
(***************************************************************************)
IdentityQuat == <<>>

NaNQuat == <<"nan">>

\* orientation * Quaternion::from_angle_axis(angle)
QuatMul(q, axis, angle) ==
    IF q = NaNQuat THEN NaNQuat
    ELSE IF angle = 0 THEN q
    ELSE IF q # <<>> /\ q[Len(q)][1] = axis
         THEN LET total == q[Len(q)][2] + angle
                  front == SubSeq(q, 1, Len(q) - 1)
              IN  IF total = 0 THEN front ELSE Append(front, <<axis, total>>)
         ELSE Append(q, <<axis, angle>>)

\* Quaternion::look_at(-dir, up) conjugated: NaN when dir is zero or parallel to up
LookRotation(dir, up) ==
    IF VCross(up, dir) = <<0, 0, 0>> THEN NaNQuat ELSE << <<"look", dir, up>> >>

(***************************************************************************)
(* Configuration (config.rs)                                               *)
(***************************************************************************)
BASE_SPEED == 8
ROTATION_SPEED == 30
CIRCLE_SPEED == 60
SCALE_SPEED == 2

ConfigurationDefault == [base_speed     |-> BASE_SPEED,
                         rotation_speed |-> ROTATION_SPEED,
                         circle_speed   |-> CIRCLE_SPEED,
                         scale_speed    |-> SCALE_SPEED,
                         command_list   |-> <<>>]

(***************************************************************************)
(* CurveControl (curve.rs)                                                 *)
(***************************************************************************)
TIME == 2000             \* 2. seconds
MAIN_DEVIATION == 8000   \* 8.
AUX_DEVIATION == 4000    \* 4.

Key(t, value) == [t |-> t, value |-> value]

CurveControlDefault == [step         |-> TIME,
                        should_reset |-> TRUE,
                        direction    |-> "ForwardX",
                        spline       |-> <<>>]

\* x * 0.333 and x * 0.666
Third(x) == (x * 333) \div 1000
TwoThirds(x) == (x * 666) \div 1000

\* the control point `main` along the direction's axis with arc offset `aux`
ControlPoint(p0, direction, main, aux) ==
    CASE direction = "ForwardX"  -> vec3(p0[1] + main, p0[2] + aux, p0[3])
      [] direction = "BackwardX" -> vec3(p0[1] - main, p0[2] + aux, p0[3])
      [] direction = "ForwardY"  -> vec3(p0[1] + aux, p0[2] + main, p0[3])
      [] direction = "BackwardY" -> vec3(p0[1] + aux, p0[2] - main, p0[3])
      [] direction = "ForwardZ"  -> vec3(p0[1], p0[2] + aux, p0[3] + main)
      [] direction = "BackwardZ" -> vec3(p0[1], p0[2] + aux, p0[3] - main)

new_spline(cv, p0, direction) ==
    LET p1 == ControlPoint(p0, direction, Third(MAIN_DEVIATION), AUX_DEVIATION)
        p2 == ControlPoint(p0, direction, TwoThirds(MAIN_DEVIATION), -AUX_DEVIATION)
        p3 == ControlPoint(p0, direction, MAIN_DEVIATION, 0)
    IN  [step         |-> 0,
         should_reset |-> FALSE,
         direction    |-> direction,
         spline       |-> <<Key(-99900, p0),
                            Key(0, p0),
                            Key(Third(TIME), p1),
                            Key(TwoThirds(TIME), p2),
                            Key(TIME, p3),
                            Key(99900, p3)>>]

\* splines: index of the key whose interval [t_i, t_{i+1}) holds t, 0 if none
search_lower_cp(keys, t) ==
    IF Len(keys) < 2 THEN 0
    ELSE LET hits == {i \in 1 .. (Len(keys) - 1) : keys[i].t <= t /\ t < keys[i + 1].t}
         IN  IF hits = {} THEN 0 ELSE CHOOSE i \in hits : TRUE

\* splines: cubic_hermite on one component; x, a, b, y are keys i-1, i, i+1, i+2
cubic_hermite(x, a, b, y, n, k) ==
    LET HermiteDen == 20   \* the normalised time n is kept in twentieths
        m0  == QuoT((b.value[k] - x.value[k]) * 1000, b.t - x.t)
        m1  == QuoT((y.value[k] - a.value[k]) * 1000, y.t - a.t)
        n2  == n * n
        n3  == n2 * n
        h00 == 2 * n3 - 3 * HermiteDen * n2 + HermiteDen * HermiteDen * HermiteDen
        h10 == n3 - 2 * HermiteDen * n2 + HermiteDen * HermiteDen * n
        h01 == 3 * HermiteDen * n2 - 2 * n3
        h11 == n3 - HermiteDen * n2
    IN  QuoT(a.value[k] * h00 + m0 * h10 + b.value[k] * h01 + m1 * h11,
             HermiteDen * HermiteDen * HermiteDen)

\* Spline::sample with CatmullRom keys: <<>> stands for None
sample(keys, t) ==
    LET i == search_lower_cp(keys, t)
    IN  IF i = 0 \/ i = 1 \/ i + 2 > Len(keys)
        THEN <<>>
        ELSE LET n == QuoT((t - keys[i].t) * 20, keys[i + 1].t - keys[i].t)
             IN  << <<cubic_hermite(keys[i - 1], keys[i], keys[i + 1], keys[i + 2], n, 1),
                       cubic_hermite(keys[i - 1], keys[i], keys[i + 1], keys[i + 2], n, 2),
                       cubic_hermite(keys[i - 1], keys[i], keys[i + 1], keys[i + 2], n, 3)>> >>

curve_slide_keep_direction(cv, p0, direction, delta_time) ==
    LET c1 == IF cv.should_reset \/ cv.step >= TIME
              THEN new_spline(cv, p0, direction)
              ELSE cv
        c2 == [c1 EXCEPT !.step = c1.step + delta_time]
        s  == sample(c2.spline, c2.step)
    IN  [curve |-> c2, pos |-> IF s = <<>> THEN p0 ELSE s[1]]

curve_slide_ignore_reset(cv, p0, direction, delta_time) ==
    LET c1 == IF cv.step >= TIME \/ cv.direction # direction
              THEN new_spline(cv, p0, direction)
              ELSE cv
        c2 == [c1 EXCEPT !.step = c1.step + delta_time]
        s  == sample(c2.spline, c2.step)
    IN  [curve |-> c2, pos |-> IF s = <<>> THEN p0 ELSE s[1]]

curve_slide_never_expires(cv, p0, direction, delta_time) ==
    LET c1 == IF cv.should_reset \/ cv.direction # direction
              THEN new_spline(cv, p0, direction)
              ELSE cv
        c2 == [c1 EXCEPT !.step = c1.step + delta_time]
        s  == sample(c2.spline, c2.step)
    IN  [curve |-> c2, pos |-> IF s = <<>> THEN p0 ELSE s[1]]

curve_slide_fallback_anchor(cv, p0, direction, delta_time) ==
    LET c1 == IF cv.should_reset \/ cv.step >= TIME \/ cv.direction # direction
              THEN new_spline(cv, p0, direction)
              ELSE cv
        c2 == [c1 EXCEPT !.step = c1.step + delta_time]
        s  == sample(c2.spline, c2.step)
    IN  [curve |-> c2, pos |-> IF s = <<>> THEN c2.spline[2].value ELSE s[1]]

\* CurveControl::slide: the controller after the call and the returned position
curve_slide(cv, p0, direction, delta_time) ==
    LET c1 == IF cv.should_reset \/ cv.step >= TIME \/ cv.direction # direction
              THEN new_spline(cv, p0, direction)
              ELSE cv
        c2 == [c1 EXCEPT !.step = c1.step + delta_time]
        s  == sample(c2.spline, c2.step)
    IN  [curve |-> c2, pos |-> IF s = <<>> THEN p0 ELSE s[1]]

reset(cv) == [cv EXCEPT !.should_reset = TRUE]

(***************************************************************************)
(* ModelPosition (mod.rs)                                                  *)
(***************************************************************************)
ModelPositionDefault == [orientation   |-> IdentityQuat,
                         translation   |-> vec3(0, 0, 0),
                         scale         |-> Unit,
                         is_selected   |-> FALSE,
                         config        |-> ConfigurationDefault,
                         debug_pressed |-> FALSE,
                         curve         |-> CurveControlDefault,
                         animation     |-> AnimationDefault]

\* with_config: the default pose with the loaded configuration
with_config(cmds) == [ModelPositionDefault EXCEPT !.config.command_list = cmds]

scale_up(m, delta_time) == [m EXCEPT !.scale = @ + m.config.scale_speed * delta_time]

scale_down_floored(m, delta_time) ==
    LET v == m.scale - m.config.scale_speed * delta_time
    IN  [m EXCEPT !.scale = IF v < 0 THEN 0 ELSE v]

scale_down(m, delta_time) == [m EXCEPT !.scale = @ - m.config.scale_speed * delta_time]

slide_always_forward(m, direction, delta_time) ==
    LET stp == m.config.base_speed * delta_time
        k   == CASE Axis(direction) = "X" -> 1
                 [] Axis(direction) = "Y" -> 2
                 [] Axis(direction) = "Z" -> 3
    IN  [m EXCEPT !.translation[k] = @ + stp,
                  !.curve = reset(@)]

slide(m, direction, delta_time) ==
    LET stp == m.config.base_speed * delta_time
        k   == CASE Axis(direction) = "X" -> 1
                 [] Axis(direction) = "Y" -> 2
                 [] Axis(direction) = "Z" -> 3
    IN  [m EXCEPT !.translation[k] = @ + Sign(direction) * stp,
                  !.curve = reset(@)]

rotate_always_forward(m, direction, delta_time) ==
    LET stp == m.config.rotation_speed * delta_time
    IN  [m EXCEPT !.orientation = QuatMul(@, Axis(direction), stp)]

rotate(m, direction, delta_time) ==
    LET stp == m.config.rotation_speed * delta_time
    IN  [m EXCEPT !.orientation = QuatMul(@, Axis(direction), Sign(direction) * stp)]

rotate_around(m, direction, p, delta_time) ==
    LET stp == m.config.circle_speed * delta_time
    IN  [m EXCEPT !.translation =
                      VAdd(RotateVec(Axis(direction), Sign(direction) * stp, VSub(@, p)), p),
                  !.curve = reset(@)]

look_at(m, p, up, delta_time) ==
    LET dir == VSub(p, m.translation)
    IN  [m EXCEPT !.orientation = LookRotation(dir, up)]

slide_curve(m, direction, delta_time) ==
    LET r == curve_slide(m.curve, m.translation, direction, delta_time)
    IN  [m EXCEPT !.translation = r.pos, !.curve = r.curve]

run_command(m, c, delta_time) ==
    CASE c = "ScaleU" -> scale_up(m, delta_time)
      [] c = "ScaleD" -> scale_down(m, delta_time)
      [] c = "SlideXF" -> slide(m, "ForwardX", delta_time)
      [] c = "SlideXB" -> slide(m, "BackwardX", delta_time)
      [] c = "SlideYF" -> slide(m, "ForwardY", delta_time)
      [] c = "SlideYB" -> slide(m, "BackwardY", delta_time)
      [] c = "SlideZF" -> slide(m, "ForwardZ", delta_time)
      [] c = "SlideZB" -> slide(m, "BackwardZ", delta_time)
      [] c = "CurveXF" -> slide_curve(m, "ForwardX", delta_time)
      [] c = "CurveXB" -> slide_curve(m, "BackwardX", delta_time)
      [] c = "CurveYF" -> slide_curve(m, "ForwardY", delta_time)
      [] c = "CurveYB" -> slide_curve(m, "BackwardY", delta_time)
      [] c = "CurveZF" -> slide_curve(m, "ForwardZ", delta_time)
      [] c = "CurveZB" -> slide_curve(m, "BackwardZ", delta_time)
      [] c = "RotateXF" -> rotate(m, "ForwardX", delta_time)
      [] c = "RotateXB" -> rotate(m, "BackwardX", delta_time)
      [] c = "RotateYF" -> rotate(m, "ForwardY", delta_time)
      [] c = "RotateYB" -> rotate(m, "BackwardY", delta_time)
      [] c = "RotateZF" -> rotate(m, "ForwardZ", delta_time)
      [] c = "RotateZB" -> rotate(m, "BackwardZ", delta_time)

\* for (c, t) in self.animation.step(delta_time) { self.run_command(c, t) }
RECURSIVE run_commands(_, _)
run_commands(m, cmds) ==
    IF cmds = <<>> THEN m
    ELSE run_commands(run_command(m, cmds[1][1], cmds[1][2]), Tail(cmds))

(***************************************************************************)
(* Keyboard.  process_keys! (macros.rs, not among the sources) tests each  *)
(* listed key in order with window.get_key; its two-expression form runs   *)
(* the first expression, or the second when the modifier key is held.      *)
(***************************************************************************)
Modifier == "LeftShift"

Keys == {"W", "A", "S", "D", "Q", "E", "R", "G", "V", "Z", "X", "C", "H", "F", Modifier}

\* the first process_keys! block of process_input, in its declared order
MoveBindings ==
    << [key |-> "W", plain |-> <<"slide", "ForwardZ">>,  alt |-> <<"slide_curve", "ForwardZ">>],
       [key |-> "A", plain |-> <<"slide", "BackwardX">>, alt |-> <<"slide_curve", "BackwardX">>],
       [key |-> "S", plain |-> <<"slide", "BackwardZ">>, alt |-> <<"slide_curve", "BackwardZ">>],
       [key |-> "D", plain |-> <<"slide", "ForwardX">>,  alt |-> <<"slide_curve", "ForwardX">>],
       [key |-> "Q", plain |-> <<"slide", "ForwardY">>,  alt |-> <<"slide_curve", "ForwardY">>],
       [key |-> "E", plain |-> <<"slide", "BackwardY">>, alt |-> <<"slide_curve", "BackwardY">>],
       [key |-> "R", plain |-> <<"scale_up">>,           alt |-> <<"scale_down">>],
       [key |-> "G", plain |-> <<"look_at", vec3(0, 0, 0)>>,
                     alt   |-> <<"look_at", vec3(0, 2 * Unit, 0)>>],
       [key |-> "V", plain |-> <<"rotate_around", "ForwardY">>,
                     alt   |-> <<"rotate_around", "BackwardY">>],
       [key |-> "Z", plain |-> <<"rotate", "ForwardZ">>, alt |-> <<"rotate", "BackwardZ">>],
       [key |-> "X", plain |-> <<"rotate", "ForwardX">>, alt |-> <<"rotate", "BackwardX">>],
       [key |-> "C", plain |-> <<"rotate", "ForwardY">>, alt |-> <<"rotate", "BackwardY">>] >>

\* one bound expression of the first block
run_binding(m, op, delta_time) ==
    CASE op[1] = "slide"         -> slide(m, op[2], delta_time)
      [] op[1] = "slide_curve"   -> slide_curve(m, op[2], delta_time)
      [] op[1] = "scale_up"      -> scale_up(m, delta_time)
      [] op[1] = "scale_down"    -> scale_down(m, delta_time)
      [] op[1] = "look_at"       -> look_at(m, op[2], vec3(0, Unit, 0), delta_time)
      [] op[1] = "rotate_around" -> rotate_around(m, op[2], vec3(0, 0, 0), delta_time)
      [] op[1] = "rotate"        -> rotate(m, op[2], delta_time)

RECURSIVE process_keys(_, _, _, _)
process_keys(m, i, keys, delta_time) ==
    IF i > Len(MoveBindings) THEN m
    ELSE LET b == MoveBindings[i]
             n == IF b.key \in keys
                  THEN run_binding(m, IF Modifier \in keys THEN b.alt ELSE b.plain, delta_time)
                  ELSE m
         IN  process_keys(n, i + 1, keys, delta_time)

process_control_keys_without_start(m, keys) ==
    LET m2 == IF "F" \notin keys THEN [m EXCEPT !.debug_pressed = FALSE] ELSE m
    IN  IF "F" \in keys /\ m2.debug_pressed = FALSE
        THEN [m2 EXCEPT !.debug_pressed = TRUE]
        ELSE m2

\* the second process_keys! block: H starts the script, F dumps the state once
process_control_keys(m, keys) ==
    LET m1 == IF "H" \in keys
              THEN [m EXCEPT !.animation = start(@, m.config.command_list)]
              ELSE m
        m2 == IF "F" \notin keys THEN [m1 EXCEPT !.debug_pressed = FALSE] ELSE m1
    IN  IF "F" \in keys /\ m2.debug_pressed = FALSE
        THEN [m2 EXCEPT !.debug_pressed = TRUE]
        ELSE m2

play_frame_full_delta(m, delta_time) ==
    LET s == step(m.animation, delta_time)
    IN  run_commands([m EXCEPT !.animation = s.ani],
                     [i \in 1 .. Len(s.ret) |-> <<s.ret[i][1], delta_time>>])

\* the animating branch of process_input
play_frame(m, delta_time) ==
    LET s == step(m.animation, delta_time)
    IN  run_commands([m EXCEPT !.animation = s.ani], s.ret)

process_input_keys_while_running(m, keys, delta_time) ==
    IF m.animation.is_running
    THEN process_control_keys(process_keys(play_frame(m, delta_time), 1, keys, delta_time), keys)
    ELSE IF ~m.is_selected
    THEN m
    ELSE process_control_keys(process_keys(m, 1, keys, delta_time), keys)

process_input_unselected(m, keys, delta_time) ==
    IF m.animation.is_running
    THEN play_frame(m, delta_time)
    ELSE process_control_keys(process_keys(m, 1, keys, delta_time), keys)

process_input_selected_only(m, keys, delta_time) ==
    IF ~m.is_selected
    THEN m
    ELSE IF m.animation.is_running
    THEN play_frame(m, delta_time)
    ELSE process_control_keys(process_keys(m, 1, keys, delta_time), keys)

process_input(m, keys, delta_time) ==
    IF m.animation.is_running
    THEN play_frame(m, delta_time)
    ELSE IF ~m.is_selected
    THEN m
    ELSE process_control_keys(process_keys(m, 1, keys, delta_time), keys)

(***************************************************************************)
(* Inputs                                                                  *)
(***************************************************************************)
\* a script gives the i-th of these commands a duration; the first three and
\* the duration 500 are those of tests::steps, the other durations are zero
\* and a negative one
ScriptCommands == <<"ScaleU", "SlideXF", "SlideZB", "ScaleD", "SlideXB">>

ScriptDurations == {-100, 0, 500}

Scripts ==
    UNION { { [i \in 1 .. n |-> <<ScriptCommands[((i - 1) % Len(ScriptCommands)) + 1], d[i]>>]
              : d \in [1 .. n -> ScriptDurations] }
            : n \in 0 .. MaxLen }

\* the script of tests::steps
TestScript == << <<"ScaleU", 500>>, <<"SlideXF", 500>>, <<"SlideZB", 500>> >>

\* a second script, offered to start while another one may be running
AltScript == << <<"RotateYF", 300>> >>

\* delta_time values: those of tests::steps' calls, zero and a negative one
Deltas == {-100, 0, 100, 300, 700}

\* config.command_list values for a ModelPosition
ModelScripts == { <<>>,
                  << <<"SlideXF", 400>> >>,
                  << <<"ScaleU", 100>>, <<"SlideZB", 500>> >>,
                  << <<"CurveYF", 300>>, <<"RotateZB", 100>> >> }

FrameDeltas == {-100, 0, 400}

\* keys held during a frame
KeySets == { {}, {"W"}, {"W", Modifier}, {"R", Modifier}, {"G"}, {"V"}, {"Z"},
             {"H"}, {"F"}, {"D", "H"} }

NoCall == [op |-> "none", cmds |-> <<>>, delta_time |-> 0,
           pre |-> AnimationDefault, ret |-> <<>>, walked |-> <<>>]

NoFrame == [op |-> "none", pre |-> ModelPositionDefault, keys |-> {}, delta_time |-> 0,
            consumed_last |-> FALSE, after_last |-> FALSE, h_starts |-> 0]

(***************************************************************************)
(* Camera (camera.rs)                                                      *)
(***************************************************************************)
ZOOM == 45000     \* 45.

CameraDefault == [zoom          |-> ZOOM,
                  model_pos     |-> ModelPositionDefault,
                  debug_pressed |-> FALSE]

process_mouse_scroll_no_floor(cam, yoffset) ==
    LET z1 == IF cam.zoom >= Unit /\ cam.zoom <= 45 * Unit THEN cam.zoom - yoffset ELSE cam.zoom
        z3 == IF z1 >= 45 * Unit THEN 45 * Unit ELSE z1
    IN  [cam EXCEPT !.zoom = z3]

process_mouse_scroll(cam, yoffset) ==
    LET z1 == IF cam.zoom >= Unit /\ cam.zoom <= 45 * Unit THEN cam.zoom - yoffset ELSE cam.zoom
        z2 == IF z1 <= Unit THEN Unit ELSE z1
        z3 == IF z2 >= 45 * Unit THEN 45 * Unit ELSE z2
    IN  [cam EXCEPT !.zoom = z3]

\* the camera's process_keys! blocks: the arrow keys orbit the origin (or
\* slide, with the modifier), K looks at the origin, J dumps the state once
CameraBindings ==
    << [key |-> "Up",    plain |-> <<"rotate_around", "BackwardX">>, alt |-> <<"slide", "BackwardZ">>],
       [key |-> "Down",  plain |-> <<"rotate_around", "ForwardX">>,  alt |-> <<"slide", "ForwardZ">>],
       [key |-> "Left",  plain |-> <<"rotate_around", "BackwardY">>, alt |-> <<"slide", "BackwardX">>],
       [key |-> "Right", plain |-> <<"rotate_around", "ForwardY">>,  alt |-> <<"slide", "ForwardX">>] >>

RECURSIVE camera_keys(_, _, _, _)
camera_keys(m, i, keys, delta_time) ==
    IF i > Len(CameraBindings) THEN m
    ELSE LET b == CameraBindings[i]
             n == IF b.key \in keys
                  THEN run_binding(m, IF Modifier \in keys THEN b.alt ELSE b.plain, delta_time)
                  ELSE m
         IN  camera_keys(n, i + 1, keys, delta_time)

\* Camera's SceneObject::process_input
camera_process_input(cam, keys, delta_time) ==
    LET m1 == camera_keys(cam.model_pos, 1, keys, delta_time)
        m2 == IF "K" \in keys
              THEN look_at(m1, vec3(0, 0, 0), vec3(0, Unit, 0), delta_time)
              ELSE m1
        d1 == IF "J" \notin keys THEN FALSE ELSE cam.debug_pressed
        d2 == IF "J" \in keys /\ d1 = FALSE THEN TRUE ELSE d1
    IN  [cam EXCEPT !.model_pos = m2, !.debug_pressed = d2]

(***************************************************************************)
(* Scene (scene.rs)                                                        *)
(***************************************************************************)
NumKeys == <<"Num1", "Num2", "Num3", "Num4", "Num5", "Num6", "Num7", "Num8", "Num9">>

\* Scene::init: n_models copies of the configured model, 2. apart along x,
\* the first one selected
scene_models(n_models, cmds) ==
    [i \in 1 .. n_models |->
        [with_config(cmds) EXCEPT !.translation[1] = 2 * Unit * (i - 1),
                                  !.is_selected = (i = 1)]]

\* the handler of one selection key: model k selected, every other one not
select_only(ms, k) == [i \in 1 .. Len(ms) |-> [ms[i] EXCEPT !.is_selected = (i = k)]]

\* the selection keys of Scene::process_input, tested in order Num1 .. Num9
RECURSIVE select_keys(_, _, _)
select_keys(ms, k, keys) ==
    IF k > Len(NumKeys) THEN ms
    ELSE select_keys(IF NumKeys[k] \in keys THEN select_only(ms, k) ELSE ms, k + 1, keys)

\* Scene::process_input on the models: selection, then every model's process_input
scene_process_input(ms, keys, delta_time) ==
    LET sel == select_keys(ms, 1, keys)
    IN  [i \in 1 .. Len(ms) |-> process_input(sel[i], keys, delta_time)]

\* the camera as Scene::init leaves it
SceneCamera == [CameraDefault EXCEPT !.model_pos.translation = vec3(0, Unit, 20 * Unit)]

NoScroll == [op |-> "none", yoffset |-> 0, pre |-> ZOOM]

NoSceneFrame == [op |-> "none", n |-> 0, keys |-> {}, delta_time |-> 0, pre |-> <<>>]

\* no scene is running
SceneIdle ==
    /\ camera = SceneCamera
    /\ last_scroll = NoScroll
    /\ models = <<>>
    /\ scene_frame = NoSceneFrame

NoMove == [n |-> 0, op |-> "none", direction |-> "ForwardX", delta_time |-> 0,
           target |-> vec3(0, 0, 0), pre |-> ModelPositionDefault,
           prev |-> [op |-> "none", direction |-> "ForwardX", delta_time |-> 0,
                     pre |-> ModelPositionDefault]]

(***************************************************************************)
(* Specification of an Animation driven directly by start and step         *)
(***************************************************************************)
InitAnim ==
    /\ ani = AnimationDefault
    /\ script \in Scripts
    /\ last_call = NoCall
    /\ played = [cmds |-> <<>>, steps |-> <<>>]
    /\ model = ModelPositionDefault
    /\ frame = NoFrame
    /\ frames = 0
    /\ last_move = NoMove
    /\ SceneIdle

Start(cmds) ==
    /\ ani' = start(ani, cmds)
    /\ last_call' = [op |-> "start", cmds |-> cmds, delta_time |-> 0,
                     pre |-> ani, ret |-> <<>>, walked |-> <<>>]
    /\ played' = IF ani.is_running THEN played ELSE [cmds |-> cmds, steps |-> <<>>]
    /\ UNCHANGED <<script, model, frame, frames, last_move, sceneVars>>

Step(delta_time) ==
    /\ Len(played.steps) < MaxSteps
    /\ LET s == step(ani, delta_time)
       IN  /\ ani' = s.ani
           /\ last_call' = [op |-> "step", cmds |-> <<>>, delta_time |-> delta_time,
                            pre |-> ani, ret |-> s.ret, walked |-> s.walked]
           /\ played' = [played EXCEPT !.steps = Append(@, <<delta_time, s.ret>>)]
    /\ UNCHANGED <<script, model, frame, frames, last_move, sceneVars>>

NextAnim ==
    \/ \E cmds \in {script, AltScript} : Start(cmds)
    \/ \E delta_time \in Deltas : Step(delta_time)

SpecAnim == InitAnim /\ [][NextAnim]_vars

(***************************************************************************)
(* Specification of a ModelPosition driven by frames of process_input      *)
(***************************************************************************)
Init ==
    /\ script \in ModelScripts
    /\ model = with_config(script)
    /\ frame = NoFrame
    /\ frames = 0
    /\ ani = AnimationDefault
    /\ last_call = NoCall
    /\ played = [cmds |-> <<>>, steps |-> <<>>]
    /\ last_move = NoMove
    /\ SceneIdle

\* one frame: SceneObject::process_input with the keys held and the frame time.
\* h_starts counts the scripts started since H was last up.
Frame(keys, delta_time) ==
    /\ model' = process_input(model, keys, delta_time)
    /\ frame' = [op |-> "process_input", pre |-> model, keys |-> keys,
                 delta_time |-> delta_time,
                 consumed_last |-> /\ model.animation.is_running
                                   /\ model.animation.command_pool # <<>>
                                   /\ model'.animation.command_pool = <<>>,
                 after_last |-> frame.consumed_last,
                 h_starts |-> IF "H" \notin keys THEN 0
                              ELSE IF ~model.animation.is_running
                                      /\ model'.animation.is_running
                                   THEN frame.h_starts + 1
                                   ELSE frame.h_starts]
    /\ frames' = frames + 1
    /\ UNCHANGED <<ani, script, last_call, played, last_move, sceneVars>>

ProcessInput(keys, delta_time) ==
    /\ frames < MaxFrames
    /\ Frame(keys, delta_time)

\* the scene writes the pub field is_selected (scene.rs, Scene::process_input)
Select(b) ==
    /\ model.is_selected # b
    /\ model' = [model EXCEPT !.is_selected = b]
    /\ frame' = [frame EXCEPT !.op = "select"]
    /\ UNCHANGED <<ani, script, last_call, played, frames, last_move, sceneVars>>

Next ==
    \/ \E keys \in KeySets, delta_time \in FrameDeltas : ProcessInput(keys, delta_time)
    \/ \E b \in BOOLEAN : Select(b)

Spec == Init /\ [][Next]_vars

(***************************************************************************)
(* Specification of a ModelPosition whose motion methods are called        *)
(* directly                                                                *)
(***************************************************************************)
MaxMoves == 3     \* method calls followed

MoveDirections == {"ForwardX", "BackwardX", "ForwardY"}

MoveDeltas == {-100, 300, 1000}

\* look_at targets: those process_input passes
LookTargets == {vec3(0, 0, 0), vec3(0, 2 * Unit, 0)}

InitMoves ==
    /\ model = ModelPositionDefault
    /\ script = <<>>
    /\ last_move = NoMove
    /\ frame = NoFrame
    /\ frames = 0
    /\ ani = AnimationDefault
    /\ last_call = NoCall
    /\ played = [cmds |-> <<>>, steps |-> <<>>]
    /\ SceneIdle

\* the bookkeeping common to the calls below
Moved(op, direction, delta_time, target, after) ==
    /\ last_move.n < MaxMoves
    /\ model' = after
    /\ last_move' = [n |-> last_move.n + 1, op |-> op, direction |-> direction,
                     delta_time |-> delta_time, target |-> target, pre |-> model,
                     prev |-> [op |-> last_move.op, direction |-> last_move.direction,
                               delta_time |-> last_move.delta_time, pre |-> last_move.pre]]
    /\ UNCHANGED <<ani, script, last_call, played, frame, frames, sceneVars>>

SlideCurve(direction, delta_time) ==
    Moved("slide_curve", direction, delta_time, vec3(0, 0, 0),
          slide_curve(model, direction, delta_time))

Slide(direction, delta_time) ==
    Moved("slide", direction, delta_time, vec3(0, 0, 0),
          slide(model, direction, delta_time))

Rotate(direction, delta_time) ==
    Moved("rotate", direction, delta_time, vec3(0, 0, 0),
          rotate(model, direction, delta_time))

RotateAround(direction, delta_time) ==
    Moved("rotate_around", direction, delta_time, vec3(0, 0, 0),
          rotate_around(model, direction, vec3(0, 0, 0), delta_time))

LookAt(p, delta_time) ==
    Moved("look_at", "ForwardX", delta_time, p,
          look_at(model, p, vec3(0, Unit, 0), delta_time))

NextMoves ==
    \/ \E d \in MoveDirections, delta_time \in MoveDeltas : SlideCurve(d, delta_time)
    \/ \E d \in MoveDirections, delta_time \in MoveDeltas : Slide(d, delta_time)
    \/ \E d \in MoveDirections, delta_time \in MoveDeltas : Rotate(d, delta_time)
    \/ \E d \in MoveDirections, delta_time \in MoveDeltas : RotateAround(d, delta_time)
    \/ \E p \in LookTargets : LookAt(p, 300)

SpecMoves == InitMoves /\ [][NextMoves]_vars

(***************************************************************************)
(* Specification of the selected model of a scene over a longer run of     *)
(* frames in which only the animation-start key is used                    *)
(***************************************************************************)
MaxHoldFrames == 5   \* process_input frames followed

HoldKeySets == { {}, {"H"}, {"W"} }

HoldDeltas == {100, 400}

\* Scene::init: models[0].is_selected = true
InitHold ==
    /\ script \in ModelScripts
    /\ model = [with_config(script) EXCEPT !.is_selected = TRUE]
    /\ frame = NoFrame
    /\ frames = 0
    /\ ani = AnimationDefault
    /\ last_call = NoCall
    /\ played = [cmds |-> <<>>, steps |-> <<>>]
    /\ last_move = NoMove
    /\ SceneIdle

HoldFrame(keys, delta_time) ==
    /\ frames < MaxHoldFrames
    /\ Frame(keys, delta_time)

NextHold == \E keys \in HoldKeySets, delta_time \in HoldDeltas : HoldFrame(keys, delta_time)

SpecHold == InitHold /\ [][NextHold]_vars

(***************************************************************************)
(* Specification of the camera's field of view under scroll events         *)
(***************************************************************************)
\* scroll offsets, in thousandths
ScrollOffsets == {-50000, -7000, -300, 0, 300, 1000, 50000}

InitCamera ==
    /\ camera = CameraDefault
    /\ last_scroll = NoScroll
    /\ models = <<>>
    /\ scene_frame = NoSceneFrame
    /\ model = ModelPositionDefault
    /\ script = <<>>
    /\ last_move = NoMove
    /\ frame = NoFrame
    /\ frames = 0
    /\ ani = AnimationDefault
    /\ last_call = NoCall
    /\ played = [cmds |-> <<>>, steps |-> <<>>]

\* glfw::WindowEvent::Scroll handled by Scene::process_events
ProcessMouseScroll(yoffset) ==
    /\ camera' = process_mouse_scroll(camera, yoffset)
    /\ last_scroll' = [op |-> "scroll", yoffset |-> yoffset, pre |-> camera.zoom]
    /\ UNCHANGED <<ani, script, last_call, played, model, frame, frames, last_move,
                   models, scene_frame>>

NextCamera == \E yoffset \in ScrollOffsets : ProcessMouseScroll(yoffset)

SpecCamera == InitCamera /\ [][NextCamera]_vars

(***************************************************************************)
(* Specification of a scene: Scene::init, then frames of                   *)
(* Scene::process_input                                                    *)
(***************************************************************************)
MaxSceneFrames == 3   \* Scene::process_input frames followed

\* n_models as Scene::init accepts it
ModelCounts == {n \in 0 .. 10 : n > 0 /\ n < 10}

SceneScript == << <<"SlideXF", 400>>, <<"ScaleU", 400>> >>

SceneDeltas == {400}

SceneKeySets == {{}} \cup {{NumKeys[k]} : k \in 1 .. Len(NumKeys)}
                     \cup { {"Num1", "Num2"}, {"Num2", "H"}, {"H"}, {"W"}, {"Up"} }

InitScene ==
    /\ script = SceneScript
    /\ \E n \in ModelCounts : models = scene_models(n, script)
    /\ camera = SceneCamera
    /\ last_scroll = NoScroll
    /\ scene_frame = NoSceneFrame
    /\ model = ModelPositionDefault
    /\ last_move = NoMove
    /\ frame = NoFrame
    /\ frames = 0
    /\ ani = AnimationDefault
    /\ last_call = NoCall
    /\ played = [cmds |-> <<>>, steps |-> <<>>]

SceneProcessInput(keys, delta_time) ==
    /\ scene_frame.n < MaxSceneFrames
    /\ models' = scene_process_input(models, keys, delta_time)
    /\ camera' = camera_process_input(camera, keys, delta_time)
    /\ scene_frame' = [op |-> "process_input", n |-> scene_frame.n + 1,
                       keys |-> keys, delta_time |-> delta_time, pre |-> models]
    /\ UNCHANGED <<ani, script, last_call, played, model, frame, frames, last_move,
                   last_scroll>>

NextScene == \E keys \in SceneKeySets, delta_time \in SceneDeltas :
                 SceneProcessInput(keys, delta_time)

SpecScene == InitScene /\ [][NextScene]_vars

(***************************************************************************)
(* Specification of the scale of a selected ModelPosition: scale_up and    *)
(* scale_down called directly, by the R key and by a script                *)
(***************************************************************************)
ScaleDeltas == {-100, 100, 500}

\* config.command_list: two ScaleD commands
ScaleScript == << <<"ScaleD", 500>>, <<"ScaleD", 100>> >>

ScaleKeySets == { {"R"}, {"R", Modifier}, {"H"} }

InitScale ==
    /\ script = ScaleScript
    /\ model = [with_config(script) EXCEPT !.is_selected = TRUE]
    /\ last_move = NoMove
    /\ frame = NoFrame
    /\ frames = 0
    /\ ani = AnimationDefault
    /\ last_call = NoCall
    /\ played = [cmds |-> <<>>, steps |-> <<>>]
    /\ SceneIdle

ScaleUp(delta_time) ==
    Moved("scale_up", "ForwardX", delta_time, vec3(0, 0, 0), scale_up(model, delta_time))

ScaleDown(delta_time) ==
    Moved("scale_down", "ForwardX", delta_time, vec3(0, 0, 0), scale_down(model, delta_time))

\* a process_input frame, counted with the direct calls
ScaleFrame(keys, delta_time) ==
    /\ last_move.n < MaxMoves
    /\ model' = process_input(model, keys, delta_time)
    /\ frame' = [NoFrame EXCEPT !.op = "process_input", !.pre = model,
                                !.keys = keys, !.delta_time = delta_time]
    /\ frames' = frames + 1
    /\ last_move' = [NoMove EXCEPT !.n = last_move.n + 1, !.op = "process_input",
                                   !.delta_time = delta_time, !.pre = model]
    /\ UNCHANGED <<ani, script, last_call, played, sceneVars>>

NextScale ==
    \/ \E delta_time \in ScaleDeltas : ScaleUp(delta_time)
    \/ \E delta_time \in ScaleDeltas : ScaleDown(delta_time)
    \/ \E keys \in ScaleKeySets, delta_time \in ScaleDeltas : ScaleFrame(keys, delta_time)

SpecScale == InitScale /\ [][NextScale]_vars

(***************************************************************************)
(* Specification of script playback on the selected model of a scene:      *)
(* frames of process_input without end, the animation-start key down in a  *)
(* bounded number of them                                                  *)
(***************************************************************************)
MaxStarts == 2    \* frames in which the animation-start key is down

PlayCommands == <<"SlideXF", "SlideZB", "SlideXB", "ScaleD", "SlideYF">>

PlayDurations == {0, 500}

\* config.command_list values: up to MaxLen commands, one script of a
\* rotation and a scale, and one with a negative duration
PlayScripts ==
    UNION { { [i \in 1 .. n |-> <<PlayCommands[((i - 1) % Len(PlayCommands)) + 1], d[i]>>]
              : d \in [1 .. n -> PlayDurations] }
            : n \in 0 .. MaxLen }
    \cup { << <<"RotateZB", 100>>, <<"ScaleU", 300>> >>,
           << <<"SlideXF", 500>>, <<"SlideXB", -100>> >> }

\* frame times are positive
PlayDeltas == {100, 300, 700}

PlayKeySets == { {}, {"H"} }

NotStarted == [started |-> FALSE, cmds |-> <<>>, origin |-> vec3(0, 0, 0)]

InitPlayback ==
    /\ script \in PlayScripts
    /\ model = [with_config(script) EXCEPT !.is_selected = TRUE]
    /\ played = NotStarted
    /\ frame = NoFrame
    /\ frames = 0
    /\ ani = AnimationDefault
    /\ last_call = NoCall
    /\ last_move = NoMove
    /\ SceneIdle

PlaybackFrame(keys, delta_time) ==
    /\ "H" \in keys => frames < MaxStarts
    /\ LET after == process_input(model, keys, delta_time)
       IN  /\ model' = after
           /\ played' = IF ~model.animation.is_running /\ after.animation.is_running
                        THEN [started |-> TRUE, cmds |-> model.config.command_list,
                              origin |-> model.translation]
                        ELSE played
    /\ frame' = [NoFrame EXCEPT !.op = "process_input", !.pre = model,
                                !.keys = keys, !.delta_time = delta_time]
    /\ frames' = IF "H" \in keys THEN frames + 1 ELSE frames
    /\ UNCHANGED <<ani, script, last_call, last_move, sceneVars>>

NextPlayback == \E keys \in PlayKeySets, delta_time \in PlayDeltas :
                    PlaybackFrame(keys, delta_time)

SpecPlayback == InitPlayback /\ [][NextPlayback]_vars

\* the frame loop of Scene::run keeps calling process_input
SpecPlaybackFair == SpecPlayback /\ WF_vars(NextPlayback)

(***************************************************************************)
(* Properties of Animation (checked under SpecAnim)                        *)
(***************************************************************************)
AllDurations(pool, P(_)) == \A i \in 1 .. Len(pool) : P(pool[i][2])

Positive(t) == t > 0
NonNegative(t) == t >= 0

RECURSIVE SumDeltas(_)
SumDeltas(steps) == IF steps = <<>> THEN 0 ELSE steps[1][1] + SumDeltas(Tail(steps))

RECURSIVE SumEmitted(_)
SumEmitted(steps) == IF steps = <<>> THEN 0 ELSE SumDur(steps[1][2]) + SumEmitted(Tail(steps))

\* C1: one step call with a positive delta_time on a queue of positive
\* durations returns entries whose durations sum to
\* min(delta_time, total remaining duration before the call).
C1_StepEmitsMinOfDeltaAndTotal ==
    (/\ last_call.op = "step"
     /\ last_call.delta_time > 0
     /\ AllDurations(last_call.pre.command_pool, Positive))
    => SumDur(last_call.ret)
         = Min(last_call.delta_time, SumDur(last_call.pre.command_pool))

\* a step that crossed a command boundary and was bounded by delta_time
C1_Witness ==
    /\ last_call.op = "step"
    /\ last_call.delta_time > 0
    /\ AllDurations(last_call.pre.command_pool, Positive)
    /\ Len(last_call.ret) >= 2
    /\ last_call.delta_time < SumDur(last_call.pre.command_pool)

C3_StopsOnEmptyingStep ==
    (/\ last_call.op = "step"
     /\ last_call.pre.command_pool # <<>>
     /\ ani.command_pool = <<>>)
    => ~ani.is_running

\* C4: in every state reached by start and step calls, is_running is true
\* if and only if the queue is non-empty.
C4_RunningIffQueueNonEmpty ==
    ani.is_running <=> (ani.command_pool # <<>>)

\* the allotment bounds of one step call
AllotmentWithinRemaining ==
    /\ \A i \in 1 .. Len(last_call.ret) :
          /\ 0 <= last_call.ret[i][2]
          /\ last_call.ret[i][2] <= last_call.pre.command_pool[i][2]
    /\ \A i \in 1 .. Len(last_call.walked) :
          last_call.walked[i][2] <= last_call.pre.command_pool[i][2]

\* C5 (as claimed): for every delta_time, zero and negative included, each
\* returned pair is allotted between 0 and the entry's remaining duration and
\* no entry's remaining duration increases.
C5_AllotmentWithinRemainingAnyDelta ==
    last_call.op = "step" => AllotmentWithinRemaining

\* C5 (amended): the same for every delta_time >= 0 on a queue whose
\* remaining durations are all >= 0.
C5_AllotmentWithinRemainingNonNegative ==
    (/\ last_call.op = "step"
     /\ last_call.delta_time >= 0
     /\ AllDurations(last_call.pre.command_pool, NonNegative))
    => AllotmentWithinRemaining

\* a step of zero delta_time on a non-empty queue, and one larger than the
\* front entry, are both covered; this is the zero one
C5_Witness ==
    /\ last_call.op = "step"
    /\ last_call.delta_time = 0
    /\ AllDurations(last_call.pre.command_pool, NonNegative)
    /\ last_call.ret # <<>>

\* C6: start while running changes nothing and discards its argument;
\* start while stopped sets is_running and makes the argument the queue.
C6_StartOnlyWhenStopped ==
    last_call.op = "start"
    => IF last_call.pre.is_running
       THEN ani = last_call.pre
       ELSE ani = [is_running |-> TRUE, command_pool |-> last_call.cmds]

\* start called with another script while one is being played
C6_Witness ==
    /\ last_call.op = "start"
    /\ last_call.pre.is_running
    /\ last_call.pre.command_pool # <<>>
    /\ last_call.cmds # last_call.pre.command_pool
    /\ ani.command_pool = last_call.pre.command_pool

\* the frame budget left when entry i of the queue is reached
BudgetAt(pool, delta_time, i) == delta_time - SumDur(SubSeq(pool, 1, i - 1))

\* C7: step returns, in queue order, each front entry shorter than the budget
\* left when it is reached with its full remaining duration, then one entry
\* with the leftover budget for the first entry at least as long as that
\* leftover, and nothing after it; tests::steps' calls return 1, 1, 3, 1 entries.
C7_StepReturnsPrefixThenLeftover ==
    /\ last_call.op = "step" =>
         LET pre == last_call.pre.command_pool
             ret == last_call.ret
             dt  == last_call.delta_time
             n   == Len(ret)
         IN  /\ n <= Len(pre)
             /\ (n = 0) => (pre = <<>>)
             /\ \A i \in 1 .. n : ret[i][1] = pre[i][1]
             /\ \A i \in 1 .. (n - 1) :
                   /\ pre[i][2] < BudgetAt(pre, dt, i)
                   /\ ret[i][2] = pre[i][2]
             /\ (n >= 1) =>
                   \/ /\ pre[n][2] >= BudgetAt(pre, dt, n)
                      /\ ret[n][2] = BudgetAt(pre, dt, n)
                   \/ /\ n = Len(pre)
                      /\ pre[n][2] < BudgetAt(pre, dt, n)
                      /\ ret[n][2] = pre[n][2]
    /\ (/\ played.cmds = TestScript
        /\ [i \in 1 .. Len(played.steps) |-> played.steps[i][1]] = <<100, 300, 700, 700>>)
       => [i \in 1 .. Len(played.steps) |-> Len(played.steps[i][2])] = <<1, 1, 3, 1>>

\* the four calls of tests::steps have been made
C7_Witness ==
    /\ played.cmds = TestScript
    /\ Len(played.steps) = 4
    /\ [i \in 1 .. 4 |-> played.steps[i][1]] = <<100, 300, 700, 700>>
    /\ last_call.op = "step"
    /\ ani.command_pool = <<>>

\* the positions of the walked queue whose remaining duration is positive
Kept(walked) == {i \in 1 .. Len(walked) : walked[i][2] > 0}

\* the j-th smallest position of keep
NthOf(keep, j) == CHOOSE i \in keep : Cardinality({k \in keep : k <= i}) = j

\* the queue after a step holds no duration <= 0 and is, in order, the entries
\* the loop left with a positive duration
PurgedInOrder ==
    LET pre  == last_call.pre.command_pool
        w    == last_call.walked
        post == ani.command_pool
    IN  /\ AllDurations(post, Positive)
        /\ Len(w) = Len(pre)
        /\ Len(post) = Cardinality(Kept(w))
        /\ \A j \in 1 .. Len(post) :
              /\ post[j] = w[NthOf(Kept(w), j)]
              /\ post[j][1] = pre[NthOf(Kept(w), j)][1]

\* every entry that entered the step with a duration <= 0 is among the removed
SpentEntriesRemoved ==
    \A i \in 1 .. Len(last_call.pre.command_pool) :
        last_call.pre.command_pool[i][2] <= 0 => i \notin Kept(last_call.walked)

\* C22 (as claimed): after every step call no entry left has a duration <= 0,
\* the survivors keep their order, and every entry that already had a zero or
\* negative duration has been removed.
C22_StepPurgesSpentAnyDelta ==
    last_call.op = "step" => (PurgedInOrder /\ SpentEntriesRemoved)

\* C22 (amended): after every step call no entry left has a duration <= 0 and
\* the survivors keep their order; for delta_time >= 0 every entry that
\* already had a zero or negative duration has been removed.
C22_StepPurgesSpentNonNegativeDelta ==
    last_call.op = "step"
    => /\ PurgedInOrder
       /\ last_call.delta_time >= 0 => SpentEntriesRemoved

\* a step that stopped at the front entry, behind which a spent entry stood
\* between it and another live one
C22_Witness ==
    /\ last_call.op = "step"
    /\ last_call.delta_time > 0
    /\ Len(last_call.ret) = 1
    /\ Len(last_call.pre.command_pool) = 3
    /\ last_call.pre.command_pool[2][2] <= 0
    /\ Len(ani.command_pool) = 2
    /\ ani.command_pool[2] = last_call.pre.command_pool[3]

(***************************************************************************)
(* Properties of ModelPosition::process_input (checked under Spec)         *)
(***************************************************************************)
MoveKeys == {"W", "A", "S", "D", "Q", "E", "R", "G", "V", "Z", "X", "C"}

\* C8: a frame entered with animation.is_running changes the pose only by
\* run_command on the pairs step(delta_time) returns, in order; the keys held
\* have no effect on the ModelPosition.
C8_AnimatingFrameIgnoresKeys ==
    (frame.op = "process_input" /\ frame.pre.animation.is_running)
    => LET s == step(frame.pre.animation, frame.delta_time)
       IN  /\ model = run_commands([frame.pre EXCEPT !.animation = s.ani], s.ret)
           /\ model.animation = s.ani
           /\ model.debug_pressed = frame.pre.debug_pressed
           /\ model.is_selected = frame.pre.is_selected
           /\ (s.ret = <<>>) =>
                 /\ model.translation = frame.pre.translation
                 /\ model.orientation = frame.pre.orientation
                 /\ model.scale = frame.pre.scale
                 /\ model.curve = frame.pre.curve

\* an animating frame of a selected model with a movement key held, in which
\* two commands ran
C8_Witness ==
    /\ frame.op = "process_input"
    /\ frame.pre.animation.is_running
    /\ frame.pre.is_selected
    /\ frame.keys \cap MoveKeys # {}
    /\ frame.delta_time > 0
    /\ Len(step(frame.pre.animation, frame.delta_time).ret) >= 2
    /\ model.translation # frame.pre.translation

\* C9: in the first frame after the step that consumed the last remaining
\* script duration, a selected ModelPosition reacts to the keys held
\* (here W alone: a slide along +Z).
C9_ManualInputRightAfterLastStep ==
    (/\ frame.op = "process_input"
     /\ frame.after_last
     /\ frame.pre.is_selected
     /\ frame.keys = {"W"}
     /\ frame.delta_time # 0)
    => model.translation[3]
         = frame.pre.translation[3] + frame.pre.config.base_speed * frame.delta_time

\* C10: a frame of a ModelPosition that is neither animating nor selected
\* changes nothing, whatever keys are held and whatever delta_time is.
C10_UnselectedFrameChangesNothing ==
    (/\ frame.op = "process_input"
     /\ ~frame.pre.animation.is_running
     /\ ~frame.pre.is_selected)
    => model = frame.pre

\* the animation-start key held on an unselected model that has a script
C10_Witness ==
    /\ frame.op = "process_input"
    /\ ~frame.pre.animation.is_running
    /\ ~frame.pre.is_selected
    /\ "H" \in frame.keys
    /\ frame.delta_time # 0
    /\ frame.pre.config.command_list # <<>>
    /\ ~model.animation.is_running

(***************************************************************************)
(* Properties of the motion methods (checked under SpecMoves)              *)
(***************************************************************************)
\* the controller cv holds a spline built from p0 for direction by a call
\* that then advanced the elapsed time by delta_time
RebuiltAt(cv, p0, direction, delta_time) ==
    /\ cv.step = delta_time
    /\ cv.direction = direction
    /\ ~cv.should_reset
    /\ Len(cv.spline) = 6
    /\ cv.spline[1].value = p0
    /\ cv.spline[2] = Key(0, p0)
    /\ cv.spline[5] = Key(TIME, ControlPoint(p0, direction, MAIN_DEVIATION, 0))
    /\ cv.spline[6].value = cv.spline[5].value

\* the previous and the last call are opposite moves on one axis for equal time
OppositePair ==
    /\ last_move.prev.op = last_move.op
    /\ Axis(last_move.prev.direction) = Axis(last_move.direction)
    /\ Sign(last_move.prev.direction) = -Sign(last_move.direction)
    /\ last_move.prev.delta_time = last_move.delta_time

\* C12: look_at towards the model's own translation (zero direction) is a
\* no-op: orientation, translation and scale are unchanged.
C12_LookAtZeroDirectionIsNoOp ==
    (last_move.op = "look_at" /\ last_move.target = last_move.pre.translation)
    => /\ model.orientation = last_move.pre.orientation
       /\ model.translation = last_move.pre.translation
       /\ model.scale = last_move.pre.scale

\* C13: a curved move in a direction other than the one of the curve held
\* rebuilds the spline anchored at the translation passed to the call, with
\* elapsed restarted from 0 and the direction set to the requested one.
C13_DirectionChangeRebuilds ==
    (/\ last_move.op = "slide_curve"
     /\ last_move.direction # last_move.pre.curve.direction)
    => RebuiltAt(model.curve, last_move.pre.translation,
                 last_move.direction, last_move.delta_time)

\* a curve in flight, away from its anchor, interrupted by another direction
C13_Witness ==
    /\ last_move.op = "slide_curve"
    /\ last_move.direction # last_move.pre.curve.direction
    /\ last_move.pre.curve.spline # <<>>
    /\ ~last_move.pre.curve.should_reset
    /\ last_move.pre.curve.step < TIME
    /\ last_move.pre.translation # last_move.pre.curve.spline[2].value
    /\ model.curve.spline[2].value = last_move.pre.translation

\* C14: slide and rotate_around set the rebuild flag, the flag stays set
\* until the next curved move, and that curved move rebuilds the spline
\* anchored at the translation the move produced, restarts elapsed and clears
\* the flag, whatever its direction and the elapsed time.
C14_StraightMoveForcesRebuild ==
    /\ last_move.op \in {"slide", "rotate_around"} => model.curve.should_reset
    /\ (last_move.op \in {"rotate", "look_at"} /\ last_move.pre.curve.should_reset)
       => /\ model.curve.should_reset
          /\ model.translation = last_move.pre.translation
    /\ (/\ last_move.op = "slide_curve"
        /\ \/ last_move.pre.curve.should_reset
           \/ last_move.prev.op \in {"slide", "rotate_around"})
       => RebuiltAt(model.curve, last_move.pre.translation,
                    last_move.direction, last_move.delta_time)

\* a curve in flight, a straight slide, then a curved move in the curve's
\* own direction before TIME has elapsed
C14_Witness ==
    /\ last_move.op = "slide_curve"
    /\ last_move.prev.op = "slide"
    /\ last_move.direction = last_move.pre.curve.direction
    /\ last_move.pre.curve.spline # <<>>
    /\ last_move.pre.curve.step < TIME
    /\ last_move.pre.translation # last_move.pre.curve.spline[2].value
    /\ ~model.curve.should_reset

\* C17: a rotate call changes neither translation nor scale, and two
\* consecutive rotate calls about one axis with opposite sign and equal
\* delta_time return orientation to its value before the first.
C17_OppositeRotationsCancel ==
    last_move.op = "rotate"
    => /\ model.translation = last_move.pre.translation
       /\ model.scale = last_move.pre.scale
       /\ OppositePair => model.orientation = last_move.prev.pre.orientation

\* a rotation about X undone on an orientation already turned about Y
C17_Witness ==
    /\ last_move.op = "rotate"
    /\ OppositePair
    /\ last_move.prev.pre.orientation # IdentityQuat
    /\ last_move.pre.orientation # last_move.prev.pre.orientation
    /\ model.orientation = last_move.prev.pre.orientation

\* C18: a curved move made when elapsed has reached TIME rebuilds from the
\* current translation and leaves elapsed = delta_time; one in the active
\* direction with no reset pending and elapsed < TIME keeps the spline and
\* only adds delta_time to elapsed; the first curved move of a fresh
\* controller rebuilds.
C18_ExpiredCurveRebuilds ==
    last_move.op = "slide_curve"
    => /\ last_move.pre.curve.step >= TIME
          => RebuiltAt(model.curve, last_move.pre.translation,
                       last_move.direction, last_move.delta_time)
       /\ (/\ last_move.pre.curve.step < TIME
           /\ ~last_move.pre.curve.should_reset
           /\ last_move.pre.curve.direction = last_move.direction)
          => model.curve = [last_move.pre.curve EXCEPT !.step = @ + last_move.delta_time]
       /\ last_move.pre.curve = CurveControlDefault
          => RebuiltAt(model.curve, last_move.pre.translation,
                       last_move.direction, last_move.delta_time)

\* a curve followed in one direction until elapsed reached TIME, then moved again
C18_Witness ==
    /\ last_move.op = "slide_curve"
    /\ last_move.pre.curve.step >= TIME
    /\ ~last_move.pre.curve.should_reset
    /\ last_move.pre.curve.direction = last_move.direction
    /\ last_move.pre.curve.spline # <<>>
    /\ model.curve.step = last_move.delta_time

\* the curved move rebuilt its spline
RebuildDue(cv, direction) == cv.should_reset \/ cv.step >= TIME \/ cv.direction # direction

\* C19: when the spline has no value at the advanced elapsed time, the curved
\* move leaves translation unchanged, and elapsed has still been advanced by
\* delta_time.
C19_NoSampleKeepsPosition ==
    (/\ last_move.op = "slide_curve"
     /\ sample(model.curve.spline, model.curve.step) = <<>>)
    => /\ model.translation = last_move.pre.translation
       /\ model.curve.step =
             (IF RebuildDue(last_move.pre.curve, last_move.direction)
              THEN 0 ELSE last_move.pre.curve.step) + last_move.delta_time

\* a curve followed away from its anchor and then stepped past its last
\* sampled interval
C19_Witness ==
    /\ last_move.op = "slide_curve"
    /\ sample(model.curve.spline, model.curve.step) = <<>>
    /\ ~RebuildDue(last_move.pre.curve, last_move.direction)
    /\ last_move.delta_time > 0
    /\ last_move.pre.translation # model.curve.spline[2].value
    /\ model.translation = last_move.pre.translation

AxisIndex(direction) == CASE Axis(direction) = "X" -> 1
                          [] Axis(direction) = "Y" -> 2
                          [] Axis(direction) = "Z" -> 3

\* C20: slide adds sign * base_speed * delta_time to the translation
\* component of the named axis and sets the rebuild flag; everything else is
\* unchanged; an opposite slide on the same axis for equal time restores
\* translation.
C20_SlideMovesOneAxis ==
    last_move.op = "slide"
    => LET pre == last_move.pre
           k   == AxisIndex(last_move.direction)
       IN  /\ model.translation[k] = pre.translation[k]
                 + Sign(last_move.direction) * pre.config.base_speed * last_move.delta_time
           /\ \A j \in (1 .. 3) \ {k} : model.translation[j] = pre.translation[j]
           /\ model.curve = [pre.curve EXCEPT !.should_reset = TRUE]
           /\ model.orientation = pre.orientation
           /\ model.scale = pre.scale
           /\ model.is_selected = pre.is_selected
           /\ model.config = pre.config
           /\ model.animation = pre.animation
           /\ model.debug_pressed = pre.debug_pressed
           /\ OppositePair => model.translation = last_move.prev.pre.translation

\* a Forward slide undone by a Backward slide, away from the origin
C20_Witness ==
    /\ last_move.op = "slide"
    /\ OppositePair
    /\ last_move.prev.direction = "ForwardX"
    /\ last_move.direction = "BackwardX"
    /\ last_move.prev.pre.translation # vec3(0, 0, 0)
    /\ last_move.pre.translation # last_move.prev.pre.translation
    /\ model.translation = last_move.prev.pre.translation

(***************************************************************************)
(* Properties of the animation-start key (checked under SpecHold)          *)
(***************************************************************************)
\* C11 (as claimed): while H is held continuously on a selected model the
\* script is started exactly once; it is not started again until H has been
\* released and pressed again.
C11_StartIsEdgeTriggered ==
    frame.h_starts <= 1

\* C11 (amended): every frame entered with the model selected, not animating
\* and H down starts the script from config.command_list, whether or not H
\* was already down in the frames before.
C11_StartIsLevelTriggered ==
    (/\ frame.op = "process_input"
     /\ frame.pre.is_selected
     /\ ~frame.pre.animation.is_running
     /\ "H" \in frame.keys)
    => model.animation = [is_running   |-> TRUE,
                          command_pool |-> frame.pre.config.command_list]

\* a non-empty script started a second time while H stayed down
C11_Witness ==
    /\ frame.op = "process_input"
    /\ frame.h_starts >= 2
    /\ "H" \in frame.keys
    /\ frame.pre.config.command_list # <<>>
    /\ ~frame.pre.animation.is_running
    /\ model.animation.command_pool = frame.pre.config.command_list

(***************************************************************************)
(* Properties of the camera and the scene                                  *)
(***************************************************************************)
\* C15 (SpecCamera): from Camera::default(), after any sequence of
\* process_mouse_scroll calls, 1 <= zoom <= 45.
C15_ZoomWithinBounds ==
    Unit <= camera.zoom /\ camera.zoom <= 45 * Unit

\* a scroll that would have taken the zoom below 1
C15_Witness ==
    /\ last_scroll.op = "scroll"
    /\ last_scroll.pre > Unit
    /\ last_scroll.pre - last_scroll.yoffset < Unit
    /\ camera.zoom = Unit

SelectedCount == Cardinality({i \in 1 .. Len(models) : models[i].is_selected})

\* C16 (SpecScene): after Scene::init and after every frame, whatever
\* selection keys are held, exactly one model has is_selected = true.
C16_ExactlyOneSelected ==
    models # <<>> => SelectedCount = 1

(***************************************************************************)
(* Properties of the scale (checked under SpecScale)                       *)
(***************************************************************************)
\* every pair of the sequence carries the command c
OnlyCommand(cmds, c) == \A i \in 1 .. Len(cmds) : cmds[i][1] = c

\* C21: scale_down(dt) subtracts config.scale_speed * dt whatever the scale
\* is, called directly, by the R key with the modifier, or by ScaleD commands
\* of a running script; nothing else changes; scale_up then scale_down with
\* equal dt restores scale.
C21_ScaleDownHasNoFloor ==
    /\ last_move.op = "scale_down"
       => model = [last_move.pre EXCEPT
                     !.scale = @ - last_move.pre.config.scale_speed * last_move.delta_time]
    /\ (/\ last_move.op = "scale_down"
        /\ last_move.prev.op = "scale_up"
        /\ last_move.prev.delta_time = last_move.delta_time)
       => model.scale = last_move.prev.pre.scale
    /\ (/\ last_move.op = "process_input"
        /\ ~frame.pre.animation.is_running
        /\ frame.keys = {"R", Modifier})
       => model.scale = frame.pre.scale - frame.pre.config.scale_speed * frame.delta_time
    /\ (/\ last_move.op = "process_input"
        /\ frame.pre.animation.is_running
        /\ OnlyCommand(step(frame.pre.animation, frame.delta_time).ret, "ScaleD"))
       => model.scale = frame.pre.scale
              - frame.pre.config.scale_speed
                  * SumDur(step(frame.pre.animation, frame.delta_time).ret)

\* scale_down called on a model whose scale is exactly 0: the scale goes negative
C21_Witness ==
    /\ last_move.op = "scale_down"
    /\ last_move.delta_time > 0
    /\ last_move.pre.scale = 0
    /\ model.scale < 0

(***************************************************************************)
(* Properties of script playback (checked under SpecPlayback and           *)
(* SpecPlaybackFair)                                                       *)
(***************************************************************************)
SlideCommands == {"SlideXF", "SlideXB", "SlideYF", "SlideYB", "SlideZF", "SlideZB"}

\* the duration of a pair counted on axis k with the sign of its command
SignedOn(pair, k) ==
    CASE pair[1] = "SlideXF" -> IF k = 1 THEN pair[2] ELSE 0
      [] pair[1] = "SlideXB" -> IF k = 1 THEN -pair[2] ELSE 0
      [] pair[1] = "SlideYF" -> IF k = 2 THEN pair[2] ELSE 0
      [] pair[1] = "SlideYB" -> IF k = 2 THEN -pair[2] ELSE 0
      [] pair[1] = "SlideZF" -> IF k = 3 THEN pair[2] ELSE 0
      [] pair[1] = "SlideZB" -> IF k = 3 THEN -pair[2] ELSE 0
      [] OTHER -> 0

RECURSIVE SignedAxisSum(_, _)
SignedAxisSum(cmds, k) ==
    IF cmds = <<>> THEN 0 ELSE SignedOn(cmds[1], k) + SignedAxisSum(Tail(cmds), k)

StaysStopped ==
    (/\ frame.op = "process_input"
     /\ ~frame.pre.animation.is_running
     /\ "H" \notin frame.keys)
    => /\ ~model.animation.is_running
       /\ model.animation.command_pool = <<>>

\* C24 (SpecPlaybackFair): a running animation eventually reaches
\* is_running = false with an empty queue, and a stopped one stays stopped
\* in every frame that does not start a script.
C24_PlaybackTerminates ==
    /\ (model.animation.is_running
          ~> (~model.animation.is_running /\ model.animation.command_pool = <<>>))
    /\ []StaysStopped

\* the frame that stopped the playback of a script of several commands
C24_Witness ==
    /\ played.started
    /\ Len(played.cmds) >= 2
    /\ AllDurations(played.cmds, NonNegative)
    /\ SumDur(played.cmds) > 0
    /\ frame.op = "process_input"
    /\ frame.pre.animation.is_running
    /\ ~model.animation.is_running
    /\ model.animation.command_pool = <<>>

(***************************************************************************)
(* Properties of animation and selection in a scene (checked under         *)
(* SpecScene)                                                              *)
(***************************************************************************)
\* the pose and the queue of a model
PoseAndQueue(m) == <<m.translation, m.orientation, m.scale, m.curve, m.animation>>

\* C25: in a scene frame, every model whose animation is running is stepped
\* and has the returned commands applied whether or not it is selected; a
\* model that is not running starts a script only if it is selected and H
\* is down; a model that is neither running nor selected keeps its pose and
\* queue, whatever the other models do.
C25_AnimationIndependentOfSelection ==
    scene_frame.op = "process_input"
    => /\ Len(models) = Len(scene_frame.pre)
       /\ \A i \in 1 .. Len(models) :
             LET pre == scene_frame.pre[i]
                 s   == step(pre.animation, scene_frame.delta_time)
             IN  /\ pre.animation.is_running
                    => /\ models[i].animation = s.ani
                       /\ PoseAndQueue(models[i])
                            = PoseAndQueue(run_commands([pre EXCEPT !.animation = s.ani], s.ret))
                 /\ (~pre.animation.is_running /\ models[i].animation.is_running)
                    => /\ models[i].is_selected
                       /\ "H" \in scene_frame.keys
                 /\ (~pre.animation.is_running /\ ~models[i].is_selected)
                    => PoseAndQueue(models[i]) = PoseAndQueue(pre)

\* a frame in which another model was selected while the first one's script
\* was running: the first one moved although it is no longer selected
C25_Witness ==
    /\ scene_frame.op = "process_input"
    /\ Len(models) >= 2
    /\ scene_frame.pre[1].animation.is_running
    /\ scene_frame.pre[1].animation.command_pool # <<>>
    /\ scene_frame.pre[1].is_selected
    /\ ~models[1].is_selected
    /\ models[2].is_selected
    /\ models[1].translation # scene_frame.pre[1].translation
    /\ PoseAndQueue(models[2]) = PoseAndQueue(scene_frame.pre[2])

====
